---- MODULE Spec2Model ----
(***************************************************************************)
(* A model of InstagramScraper (src/scraper.py) and of the pydantic        *)
(* schemas it builds (src/schema.py).                                      *)
(*                                                                         *)
(* One behaviour is one invocation of a method of the class: scrape(), or  *)
(* _scrape_comments_batch() called on a list of posts.  Every await of the *)
(* code is a step boundary; the synchronous code between two awaits is one *)
(* action.  The rate limiter, the proxy source, the HTTP fetcher and the   *)
(* browser are the environment: each answer they can give is a choice.     *)
(*                                                                         *)
(* Reading of the source's indentation.  In _scrape_profile the try block  *)
(* (lines 133-171) is indented under "if not proxy:" (line 129), so it     *)
(* runs only when no proxy was obtained.  In the other fetch methods the   *)
(* try block is indented one level deeper than the statement before it     *)
(* with no block to belong to; it is read as the body of the method.       *)
(***************************************************************************)
EXTENDS Integers, Sequences, FiniteSets, TLC

----------------------------------------------------------------------------
(* Bounds of the model *)

MaxSmallPosts == 2      \* max_posts ranges over 1..MaxSmallPosts and the spec's examples
MaxPageLen == 2         \* edges of one response page (besides the spec's example pages)
MaxLinks == 2           \* post links found on the rendered profile page
MaxBatchPosts == 4      \* posts handed to _scrape_comments_batch (besides the spec's 7)
MaxCommentsBound == 1   \* max_comments_per_post is 0 or MaxCommentsBound
MaxChildren == 3        \* child media nodes of a carousel node
MaxNodes == 3           \* raw nodes of a list handed to the normalizer alone

(* Program constants *)

MaxRetriesMut == 3 + 1  \* a variant with one attempt more
MaxRetries == 3         \* retry_with_backoff(max_retries=3, ...)
BaseDelay == 3          \* retry_with_backoff(..., base_delay=3.0)
BackoffFactor == 2      \* the constant factor of the backoff policy
WaveSize == 3           \* range(0, len(tasks), 3), tasks[i:i+3]
ScrollPage == 12        \* scrolls_needed = (max_posts // 12) + 1

----------------------------------------------------------------------------
(* Values *)

None == "None"

Min(a, b) == IF a < b THEN a ELSE b

SeqsUpTo(S, n) == UNION {[1..k -> S] : k \in 0..n}

RECURSIVE Repeat(_, _)
Repeat(x, n) == IF n = 0 THEN << >> ELSE <<x>> \o Repeat(x, n - 1)

ScrapeTypes == {"profile", "posts", "reels", "hashtag", "location"}

(* urls: absent, an empty list, or a list with one URL.                    *)
(* username: absent, the empty string, or a name.                          *)
UrlsValues == {"none", "empty", "one"}
UsernameValues == {"none", "empty", "name"}

(* A URL: its text, and the text cut at every "/" and "?" (the two         *)
(* characters the pattern of line 96 tells apart from the others).         *)
Url(text, tokens) == [text |-> text, tokens |-> tokens]

ProfileUrl ==
    Url("https://www.instagram.com/natgeo/",
        <<"https:", "/", "/", "www.instagram.com", "/", "natgeo", "/">>)

Urls ==
    {ProfileUrl,
     Url("https://www.instagram.com/natgeo/?hl=en",
         <<"https:", "/", "/", "www.instagram.com", "/", "natgeo", "/", "?", "hl=en">>),
     Url("https://instagram.com/natgeo",
         <<"https:", "/", "/", "instagram.com", "/", "natgeo">>),
     Url("https://www.instagram.com/",
         <<"https:", "/", "/", "www.instagram.com", "/">>),
     Url("https://site/natgeo/",
         <<"https:", "/", "/", "site", "/", "natgeo", "/">>),
     Url("https://site/natgeo/?hl=en",
         <<"https:", "/", "/", "site", "/", "natgeo", "/", "?", "hl=en">>),
     Url("https://site/go?to=instagram.com/nasa",
         <<"https:", "/", "/", "site", "/", "go", "?", "to=instagram.com", "/", "nasa">>)}

MaxPostsValues == (1..MaxSmallPosts) \cup {8, 12, 20}

(* The inputs tried: every combination of the limits for scrape_type =     *)
(* posts (the limit on comments is read only when comments are included),  *)
(* with one URL and with urls and username absent or given; the other      *)
(* scrape types, which read neither limit, with the limits at one value,   *)
(* every URL, and urls and username absent, empty or given.  url is        *)
(* urls[0], read only when the list has an element.                        *)
Configs ==
    {c \in [urls : UrlsValues, url : Urls, username : UsernameValues,
            scrape_type : ScrapeTypes, max_posts : MaxPostsValues,
            include_comments : BOOLEAN, max_comments_per_post : {0, MaxCommentsBound}] :
        /\ ~c.include_comments => c.max_comments_per_post = 0
        /\ c.scrape_type # "posts" => c.max_posts = 1 /\ ~c.include_comments
        /\ (c.scrape_type = "posts" \/ c.urls # "one") => c.url = ProfileUrl
        /\ c.scrape_type = "posts" => (c.urls # "empty" /\ c.username # "empty")}

(* What the proxy source hands out during one invocation: a handle, or    *)
(* nothing (no proxies configured).                                        *)
ProxySources == {"none", "p1"}

Statuses == {200, 401, 429, 500}
Cursors == {"c1", "c2"}

(* A response of the HTTP fetcher: a status and a body.  The body is either *)
(* not JSON, a JSON object without user data, one whose user is null (told *)
(* apart from an absent one only by _scrape_profile), or one with a user   *)
(* object.  NetworkError stands for fetcher.get() raising.                 *)
Bodies == {"unparsable", "nouser", "nulluser", "user"}
NetworkError == [status |-> 0, body |-> "error"]
ProfileAnswers == [status : Statuses, body : Bodies] \cup {NetworkError}

(* Raw media nodes.  Every read of a node is node.get(key, default) with a *)
(* falsy default, or is followed by "or" or "if": an absent key and a      *)
(* falsy value behave alike, so a node is given with every key the         *)
(* normalizer reads, "" / 0 / FALSE / << >> standing for absence too.      *)
Typenames == {"GraphImage", "GraphVideo", "GraphSidecar"}

Child(k) == [display_url |-> ToString(k), video_url |-> ""]
NoUrlChild == [display_url |-> "", video_url |-> ""]

(* The first k of the children 1, 2, ..., and a list whose middle child    *)
(* carries no URL.                                                         *)
ChildLists ==
    {[i \in 1..k |-> Child(i)] : k \in 0..MaxChildren}
    \cup {<<Child(1), NoUrlChild, Child(2)>>}

(* The two places of the like count, edge_media_preview_like.count and     *)
(* edge_liked_by.count: each is absent (NoCount) or holds a count.         *)
NoCount == 0 - 1
LikeCounts == {NoCount, 0, 7}

RawPostNodes ==
    [shortcode : {"", "A", "B"}, typename : Typenames, is_video : BOOLEAN,
     video_view_count : {0, 42}, display_url : {"", "d"}, video_url : {"", "v"},
     children : ChildLists, preview_like_count : LikeCounts, liked_by_count : LikeCounts]

GoodNode ==
    [shortcode |-> "A", typename |-> "GraphImage", is_video |-> FALSE,
     video_view_count |-> 0, display_url |-> "d", video_url |-> "", children |-> << >>,
     preview_like_count |-> 7, liked_by_count |-> NoCount]

(* The nodes of the pages: a node has a shortcode or lacks it. *)
PostNodes == {GoodNode, [GoodNode EXCEPT !.shortcode = ""]}

(* The edge lists a page can carry: every short list, and the pages of 5   *)
(* and of 10 nodes of the pagination example.                              *)
EdgeLists == SeqsUpTo(PostNodes, MaxPageLen) \cup {Repeat(GoodNode, 5), Repeat(GoodNode, 10)}

(* A response of the media listing endpoint.  Edges and page_info are      *)
(* those of the user object, and absent without one.                       *)
MediaAnswers ==
    {NetworkError}
    \cup [status : {200, 500}, body : {"unparsable", "nouser"}, edges : {<< >>},
          has_next : {FALSE}, end_cursor : {None}]
    \cup [status : {500}, body : {"user"}, edges : {<<GoodNode>>},
          has_next : {FALSE}, end_cursor : {None}]
    \cup [status : {200}, body : {"user"}, edges : EdgeLists,
          has_next : BOOLEAN, end_cursor : Cursors]

(* The answers tried for a continuation page. *)
PageAnswers == {r \in MediaAnswers : r = NetworkError \/ r.end_cursor # "c1"}

----------------------------------------------------------------------------
(* src/schema.py: the models.  A model is given here by its required       *)
(* fields and the type each must have; a construction validates when every *)
(* required field is supplied with that type (unknown keywords are         *)
(* ignored, fields with a default may be left out).                        *)

(* Variant: type and timestamp are not required of the caller. *)
InstagramPostSchemaMut ==
    [shortcode |-> "str", likes |-> "int", comments_count |-> "int"]

InstagramPostSchema ==
    [shortcode |-> "str", type |-> "str", timestamp |-> "str",
     likes |-> "int", comments_count |-> "int"]

(* Variant: the timestamp field takes the datetime it is given. *)
InstagramCommentSchemaMut ==
    [comment_id |-> "str", text |-> "str", author_username |-> "str",
     timestamp |-> "datetime"]

InstagramCommentSchema ==
    [comment_id |-> "str", text |-> "str", author_username |-> "str",
     timestamp |-> "str"]

InstagramProfileSchema ==
    [username |-> "str", full_name |-> "str", follower_count |-> "int",
     following_count |-> "int", post_count |-> "int", profile_pic_url |-> "str"]

Validates(kwargs, schema) ==
    \A f \in DOMAIN schema : f \in DOMAIN kwargs /\ kwargs[f] = schema[f]

(* Variant: the validation tests for absence only, not for an empty value. *)
ModelPostInitRejectsMut(cfg) ==
    cfg.urls = "none" /\ cfg.username = "none"

(* InstagramScraperInput.model_post_init: TRUE when the input is rejected. *)
ModelPostInitRejects(cfg) ==
    cfg.urls \in {"none", "empty"} /\ cfg.username \in {"none", "empty"}

(* A post as the rest of the program sees it: its key and its comments     *)
(* (InstagramPost.comments defaults to the empty list).                    *)
Post(shortcode) == [shortcode |-> shortcode, comments |-> << >>]

(* A post as the normalizer builds it: of the keywords it passes, the      *)
(* model keeps those that name a field; media_type, post_url, is_video and *)
(* owner_username name none and are ignored.                               *)
NormalizedPost(shortcode, media_urls, video_views, likes) ==
    [shortcode |-> shortcode, comments |-> << >>,
     media_urls |-> media_urls, video_views |-> video_views, likes |-> likes]

----------------------------------------------------------------------------
VARIABLES
    entry,        \* the method this behaviour invokes
    config,       \* the input of scrape()
    pc,           \* where the invoked coroutine stands
    username,     \* scrape(): the resolved identifier
    results,      \* what the invocation returned (a sequence of records)
    raised,       \* the exception the invocation raised, or None
    netActivity,  \* a rate-limit acquire, proxy acquire or request happened
    attempts,     \* retry_with_backoff: attempts of _scrape_profile started
    delays,       \* retry_with_backoff: the delays slept, in order
    profileLog,   \* the outcome of each finished attempt of _scrape_profile
    proxy,        \* the proxy held by the running fetch method
    pageProxy,    \* the proxy held by _fetch_paginated_posts
    posts,        \* the post list under construction
    gqlLog,       \* the requests of structured post extraction, with their answers
    gqlOutcome,   \* how _scrape_posts_graphql ended: None, "raised" or "returned"
    reports,      \* the outcome reports the proxy source received, counted
    browser,      \* the state of _scrape_posts_browser
    maxComments,  \* the max_comments argument of _scrape_comments_batch
    tasks,        \* _scrape_comments_batch: the fetch operation of each post
    waveStart,    \* _scrape_comments_batch: the loop variable i of line 553
    waves,        \* _scrape_comments_batch: the sizes of the waves started
    proxySource,  \* what the proxy source hands out in this invocation
    handles,      \* the proxy handles get_proxy() has returned, counted
    permits,      \* rate-limit acquires whose operation has not yet issued
                  \* its request nor ended (negative: a request without one)
    input         \* the argument, when a normalizer is what is invoked

cfgVars == <<entry, config, username, proxySource, input>>
outVars == <<results, raised>>
profileVars == <<attempts, delays, profileLog>>
gqlVars == <<pageProxy, posts, gqlLog, gqlOutcome>>
batchVars == <<maxComments, tasks, waveStart, waves>>

vars == <<entry, config, pc, username, results, raised, netActivity, attempts,
          delays, profileLog, proxy, pageProxy, posts, gqlLog, gqlOutcome,
          reports, browser, maxComments, tasks, waveStart, waves, proxySource, input,
          handles, permits>>

(* What get_proxy() can answer: what the source hands out, or an exception. *)
ProxyAnswers == {proxySource, "raise"}

NoInput == [fn |-> None]

(* await self.rate_limit() returned; a request or navigation was issued;  *)
(* the operation ended before its request; get_proxy() answered a, which   *)
(* ends the operation when it is an exception.                             *)
Acquired == permits' = permits + 1
Requested == permits' = permits - 1
Lapsed == permits' = permits - 1
Answered(a) == handles' = IF a \in {"none", "raise"} THEN handles ELSE handles + 1
AnsweredAfterAcquire(a) ==
    /\ Answered(a)
    /\ IF a = "raise" THEN Lapsed ELSE UNCHANGED permits

(* links: what line 439 finds in each post link of the page; shortcodes:   *)
(* the list of line 448; visited: the detail pages opened; failed: the     *)
(* shortcodes whose processing raised.                                     *)
BrowserIdle ==
    [state |-> "idle", scrolls |-> 0, links |-> << >>, shortcodes |-> << >>,
     idx |-> 0, visited |-> << >>, failed |-> << >>]

----------------------------------------------------------------------------
(* scrape(), lines 55-92 *)

(* _extract_username_from_url, lines 94-99.  re.search with the pattern    *)
(* instagram\.com/([^/\?]+): the leftmost place where a piece of the text   *)
(* ends in "instagram.com", a "/" follows, and a piece that is neither "/" *)
(* nor "?" follows that; the value is that piece.  Without such a place    *)
(* the value is the URL itself.                                            *)
Separators == {"/", "?"}

EndsInInstagramCom == {"instagram.com", "www.instagram.com", "to=instagram.com"}

Matches(tokens) ==
    {i \in 1..(Len(tokens) - 2) :
        /\ tokens[i] \in EndsInInstagramCom
        /\ tokens[i + 1] = "/"
        /\ tokens[i + 2] \notin Separators}

(* Variant: the piece after the host of the URL, whatever the host. *)
ExtractUsernameFromUrlMut(url) ==
    IF Len(url.tokens) >= 6 /\ url.tokens[6] \notin Separators
    THEN url.tokens[6] ELSE url.text

ExtractUsernameFromUrl(url) ==
    LET m == Matches(url.tokens) IN
    IF m # {}
    THEN url.tokens[(CHOOSE i \in m : \A j \in m : i <= j) + 2]     \* line 98
    ELSE url.text                                                   \* line 99

(* Lines 61-65: the explicit username unless it is absent or empty and a   *)
(* URL is given.                                                           *)
ResolveUsername(cfg) ==
    IF cfg.urls = "one" /\ cfg.username \in {"none", "empty"}
    THEN ExtractUsernameFromUrl(cfg.url) ELSE cfg.username

(* The input of scrape() the other entry points run under: unused by them. *)
DefaultConfig ==
    [urls |-> "none", url |-> ProfileUrl, username |-> "name", scrape_type |-> "posts",
     max_posts |-> 1, include_comments |-> TRUE, max_comments_per_post |-> 0]

InitCommon ==
    /\ username = None
    /\ results = << >>
    /\ raised = None
    /\ netActivity = FALSE
    /\ attempts = 0
    /\ delays = << >>
    /\ profileLog = << >>
    /\ proxy = "none"
    /\ pageProxy = "none"
    /\ gqlLog = << >>
    /\ gqlOutcome = None
    /\ reports = [success |-> 0, failure |-> 0]
    /\ browser = BrowserIdle
    /\ tasks = << >>
    /\ waveStart = 0
    /\ waves = << >>
    /\ proxySource \in ProxySources
    /\ handles = 0
    /\ permits = 0

(* scrape(input_data) *)
InitScrape ==
    /\ entry = "scrape"
    /\ config \in Configs
    /\ pc = "start"
    /\ posts = << >>
    /\ maxComments = config.max_comments_per_post           \* line 85
    /\ input = NoInput

(* The sizes of the lists tried: every small one, and the 7 posts of the   *)
(* example of the waves (3, 3, 1).                                         *)
BatchSizes == (0..MaxBatchPosts) \cup {7}

(* _scrape_comments_batch(posts, max_comments) on n posts with distinct    *)
(* shortcodes and no comments yet.                                         *)
InitBatch ==
    /\ entry = "_scrape_comments_batch"
    /\ config = DefaultConfig
    /\ pc = "batch_start"
    /\ \E n \in BatchSizes : posts = [i \in 1..n |-> Post(ToString(i))]
    /\ maxComments \in {0, MaxCommentsBound}
    /\ input = NoInput

Init == InitCommon /\ (InitScrape \/ InitBatch)

(* Lines 57-74: validation, identifier resolution and dispatch, up to the  *)
(* first await of the selected path.  A scrape_type that is neither        *)
(* profile nor posts/reels falls through both branches: results = [].      *)
(* Variant: every scrape_type other than profile takes the posts path. *)
ScrapeStartMut ==
    /\ entry = "scrape" /\ pc = "start"
    /\ IF ModelPostInitRejects(config)
       THEN /\ raised' = "ValueError"
            /\ pc' = "done"
            /\ username' = username
       ELSE /\ username' = ResolveUsername(config)
            /\ raised' = raised
            /\ pc' = IF config.scrape_type = "profile" THEN "profile_rate_limit"
                     ELSE "gql_rate_limit"
    /\ UNCHANGED <<entry, config, proxySource, input, results, netActivity, profileVars,
                   proxy, gqlVars, reports, browser, batchVars>>
    /\ UNCHANGED <<handles, permits>>

ScrapeStart ==
    /\ entry = "scrape" /\ pc = "start"
    /\ IF ModelPostInitRejects(config)
       THEN /\ raised' = "ValueError"
            /\ pc' = "done"
            /\ username' = username
       ELSE /\ username' = ResolveUsername(config)
            /\ raised' = raised
            /\ pc' = CASE config.scrape_type = "profile" -> "profile_rate_limit"
                       [] config.scrape_type \in {"posts", "reels"} -> "gql_rate_limit"
                       [] OTHER -> "done"
    /\ UNCHANGED <<entry, config, proxySource, input, results, netActivity, profileVars,
                   proxy, gqlVars, reports, browser, batchVars>>
    /\ UNCHANGED <<handles, permits>>

(* Lines 82-92: what scrape() does with the list _scrape_posts returned.   *)
(* On an empty list _scrape_comments_batch starts nothing and returns the  *)
(* empty list at once.                                                     *)
ModelDump(ps) == [i \in 1..Len(ps) |-> [kind |-> "Post"] @@ ps[i]]

PostsReturned(ps) ==
    /\ posts' = ps
    /\ raised' = raised
    /\ IF config.include_comments /\ ps # << >>
       THEN pc' = "batch_start" /\ results' = results
       ELSE pc' = "done" /\ results' = ModelDump(ps)

----------------------------------------------------------------------------
(* retry_with_backoff (shared.utils): call the method; when it raises and  *)
(* attempts remain, sleep the current delay and call it again, the delay   *)
(* growing by a constant factor; when none remain, raise.                  *)

RECURSIVE Pow(_, _)
Pow(b, n) == IF n = 0 THEN 1 ELSE b * Pow(b, n - 1)

AttemptsRemain(attempt) == attempt < MaxRetries

BackoffDelay(attempt) == BaseDelay * Pow(BackoffFactor, attempt - 1)

(* The attempt in progress raised exc. *)
AttemptRaised(exc) ==
    IF AttemptsRemain(attempts)
    THEN pc' = "retry_sleep" /\ raised' = raised
    ELSE pc' = "done" /\ raised' = exc

RetrySleep ==
    /\ pc = "retry_sleep"
    /\ delays' = Append(delays, BackoffDelay(attempts))
    /\ pc' = "profile_rate_limit"
    /\ UNCHANGED <<cfgVars, outVars, netActivity, attempts, profileLog, proxy,
                   gqlVars, reports, browser, batchVars>>
    /\ UNCHANGED <<handles, permits>>

----------------------------------------------------------------------------
(* _scrape_profile, lines 101-171 *)

(* Line 112: await self.rate_limit(), the first statement of an attempt. *)
ProfileRateLimit ==
    /\ pc = "profile_rate_limit"
    /\ attempts' = attempts + 1
    /\ netActivity' = TRUE
    /\ pc' = "profile_get_proxy"
    /\ UNCHANGED <<cfgVars, outVars, delays, profileLog, proxy, gqlVars,
                   reports, browser, batchVars>>
    /\ Acquired /\ UNCHANGED handles

(* Line 126: proxy = await self.get_proxy(). *)
ProfileGetProxy ==
    /\ pc = "profile_get_proxy"
    /\ netActivity' = TRUE
    /\ \E a \in ProxyAnswers :
         /\ AnsweredAfterAcquire(a)
         /\ IF a = "raise"
            THEN /\ profileLog' = Append(profileLog, "proxy_raise")
                 /\ AttemptRaised("ProxyError")
                 /\ proxy' = proxy
            ELSE /\ proxy' = a
                 /\ pc' = "profile_fetch"
                 /\ UNCHANGED <<profileLog, raised>>
    /\ UNCHANGED <<cfgVars, results, attempts, delays, gqlVars, reports, browser, batchVars>>

(* Lines 129-133: the try block belongs to "if not proxy:". *)
TryBlockRuns(p) == p = "none"

(* Lines 135-166: what the try block does with a response. *)
ProfileOutcome(resp) ==
    CASE resp = NetworkError -> "fetch_raise"
      [] resp.status = 429 -> "429"
      [] resp.status = 401 -> "401"
      [] resp.body = "unparsable" -> "unparsable"
      [] resp.body = "nulluser" -> "nulluser"
      [] OTHER -> "profile"

ProfileException(outcome) ==
    CASE outcome = "429" -> "RateLimited"
      [] outcome = "401" -> "Unauthorized"
      [] outcome = "unparsable" -> "JSONDecodeError"
      [] outcome = "nulluser" -> "AttributeError"
      [] OTHER -> "FetchError"

(* Lines 147-161: the keywords InstagramProfile is built with. *)
ProfileKwargs ==
    [username |-> "str", full_name |-> "str", biography |-> "str",
     follower_count |-> "int", following_count |-> "int", post_count |-> "int",
     is_verified |-> "bool", is_private |-> "bool", is_business |-> "bool",
     profile_pic_url |-> "str"]

ProfileRecord(name) == [kind |-> "Profile", username |-> name]

(* Lines 128-171, and what scrape() does with the value (lines 71-72, 92). *)
ProfileFetch ==
    /\ pc = "profile_fetch"
    /\ IF TryBlockRuns(proxy)
       THEN /\ netActivity' = TRUE
            /\ Requested
            /\ \E resp \in ProfileAnswers :
                 LET o == ProfileOutcome(resp) IN
                 /\ profileLog' = Append(profileLog, o)
                 /\ IF o = "profile" /\ Validates(ProfileKwargs, InstagramProfileSchema)
                    THEN /\ results' = <<ProfileRecord(username)>>
                         /\ pc' = "done"
                         /\ raised' = raised
                    ELSE /\ AttemptRaised(ProfileException(o))
                         /\ results' = results
       ELSE \* the method ends without a return value; None.model_dump() raises
            /\ profileLog' = Append(profileLog, "skipped")
            /\ raised' = "AttributeError"
            /\ pc' = "done"
            /\ Lapsed
            /\ UNCHANGED <<results, netActivity>>
    /\ UNCHANGED <<cfgVars, attempts, delays, proxy, gqlVars, reports, browser, batchVars,
                   handles>>

----------------------------------------------------------------------------
(* Outcome reports to the proxy source: made only for a proxy handle. *)
ReportSuccess(p) == IF p # "none" THEN [reports EXCEPT !.success = @ + 1] ELSE reports
ReportFailure(p) == IF p # "none" THEN [reports EXCEPT !.failure = @ + 1] ELSE reports

----------------------------------------------------------------------------
(* _parse_post_from_graphql, lines 340-399.  The value is a sequence: empty *)
(* for None, else the one post.                                            *)

(* Lines 381-393: the keywords InstagramPost is built with. *)
PostKwargs ==
    [shortcode |-> "str", post_url |-> "str", media_type |-> "str",
     media_urls |-> "list", caption |-> "str", likes |-> "int",
     comments_count |-> "int", timestamp |-> "datetime", is_video |-> "bool",
     video_views |-> "int", owner_username |-> "str"]

(* Lines 354-359 *)
MediaType(typename) ==
    CASE typename = "GraphVideo" -> "video"
      [] typename = "GraphSidecar" -> "carousel"
      [] OTHER -> "image"

(* Lines 367 and 371: display_url or video_url, "" when neither. *)
MediaUrl(n) == IF n.display_url # "" THEN n.display_url ELSE n.video_url

(* Lines 364-369: the URLs of the children that carry one, in order. *)
RECURSIVE ChildUrls(_)
ChildUrls(children) ==
    IF children = << >> THEN << >>
    ELSE (IF MediaUrl(Head(children)) # "" THEN <<MediaUrl(Head(children))>> ELSE << >>)
         \o ChildUrls(Tail(children))

(* Lines 362-373 *)
MediaUrls(node) ==
    IF MediaType(node.typename) = "carousel" THEN ChildUrls(node.children)
    ELSE IF MediaUrl(node) # "" THEN <<MediaUrl(node)>> ELSE << >>

(* Line 391 *)
VideoViews(node) == IF node.is_video THEN node.video_view_count ELSE 0

(* Lines 376-377: the first count when it is there and not 0, else the     *)
(* second count, 0 when that is not there.                                 *)
Likes(node) ==
    IF node.preview_like_count \notin {NoCount, 0} THEN node.preview_like_count
    ELSE IF node.liked_by_count = NoCount THEN 0 ELSE node.liked_by_count

ParsePostFromGraphql(node) ==
    IF node.shortcode = "" THEN << >>                       \* lines 343-345
    ELSE IF Validates(PostKwargs, InstagramPostSchema)
         THEN <<NormalizedPost(node.shortcode, MediaUrls(node), VideoViews(node),
                               Likes(node))>>
         ELSE << >>                                         \* lines 397-399

(* The loops of lines 249-257 and 325-333: the posts of the nodes, in order. *)
RECURSIVE ParseEdges(_)
ParseEdges(edges) ==
    IF edges = << >> THEN << >>
    ELSE ParsePostFromGraphql(Head(edges)) \o ParseEdges(Tail(edges))

(* Python's xs[:n] *)
Take(xs, n) == SubSeq(xs, 1, Min(Len(xs), n))

----------------------------------------------------------------------------
(* _scrape_posts, lines 173-199, and _scrape_posts_graphql, lines 201-282 *)

(* Lines 189-195: structured extraction raised, its list is lost (posts of *)
(* line 184 is still empty), and the fallback is called.                   *)
GraphqlRaised ==
    /\ gqlOutcome' = "raised"
    /\ pc' = "browser_get_proxy"
    /\ posts' = << >>
    /\ UNCHANGED outVars

(* Line 208 *)
GqlRateLimit ==
    /\ pc = "gql_rate_limit"
    /\ netActivity' = TRUE
    /\ pc' = "gql_get_proxy"
    /\ UNCHANGED <<cfgVars, outVars, profileVars, proxy, gqlVars, reports, browser, batchVars>>
    /\ Acquired /\ UNCHANGED handles

(* Line 223: outside the try block, so an exception goes to _scrape_posts. *)
GqlGetProxy ==
    /\ pc = "gql_get_proxy"
    /\ netActivity' = TRUE
    /\ \E a \in ProxyAnswers :
         /\ AnsweredAfterAcquire(a)
         /\ IF a = "raise"
            THEN GraphqlRaised /\ proxy' = proxy
            ELSE /\ proxy' = a
                 /\ pc' = "gql_fetch"
                 /\ UNCHANGED <<outVars, posts, gqlOutcome>>
    /\ UNCHANGED <<cfgVars, profileVars, pageProxy, gqlLog, reports, browser, batchVars>>

(* Lines 229-242: what the first response leads to. *)
GqlFirstOutcome(resp) ==
    CASE resp = NetworkError -> "raise"
      [] resp.status # 200 -> "raise"                       \* lines 231-232
      [] resp.body = "unparsable" -> "raise"                \* line 234
      [] resp.body = "nouser" -> "return"                   \* lines 240-242
      [] OTHER -> "parse"

LogEntry(op, after, resp) ==
    [op |-> op, after |-> after,
     status |-> resp.status, body |-> resp.body,
     items |-> IF resp.body = "user" THEN Len(resp.edges) ELSE 0,
     has_next |-> IF resp.body = "user" THEN resp.has_next ELSE FALSE,
     end_cursor |-> IF resp.body = "user" THEN resp.end_cursor ELSE None]

(* Lines 227-282, up to the await of line 264 when a further page is asked. *)
GqlFetch ==
    /\ pc = "gql_fetch"
    /\ netActivity' = TRUE
    /\ \E resp \in MediaAnswers :
         LET o == GqlFirstOutcome(resp)
             ps == ParseEdges(Take(resp.edges, config.max_posts))
         IN
         /\ gqlLog' = Append(gqlLog, LogEntry("first", None, resp))
         /\ CASE o = "raise" ->
                   /\ reports' = ReportFailure(proxy)       \* lines 277-280
                   /\ GraphqlRaised
              [] o = "return" ->                             \* line 242
                   /\ gqlOutcome' = "returned"
                   /\ PostsReturned(posts)
                   /\ reports' = reports
              [] OTHER ->
                   IF Len(ps) < config.max_posts /\ resp.has_next   \* lines 260-262
                   THEN /\ posts' = ps
                        /\ pc' = "page_rate_limit"
                        /\ UNCHANGED <<outVars, gqlOutcome, reports>>
                   ELSE /\ reports' = ReportSuccess(proxy)   \* lines 272-273
                        /\ gqlOutcome' = "returned"
                        /\ PostsReturned(ps)
    /\ UNCHANGED <<cfgVars, profileVars, proxy, pageProxy, browser, batchVars>>
    /\ Requested /\ UNCHANGED handles

----------------------------------------------------------------------------
(* _fetch_paginated_posts, lines 284-338 *)

(* Line 292 *)
PageRateLimit ==
    /\ pc = "page_rate_limit"
    /\ netActivity' = TRUE
    /\ pc' = "page_get_proxy"
    /\ UNCHANGED <<cfgVars, outVars, profileVars, proxy, gqlVars, reports, browser, batchVars>>
    /\ Acquired /\ UNCHANGED handles

(* Line 314: outside the try block of _fetch_paginated_posts, inside the   *)
(* one of _scrape_posts_graphql (lines 277-280).                           *)
PageGetProxy ==
    /\ pc = "page_get_proxy"
    /\ netActivity' = TRUE
    /\ \E a \in ProxyAnswers :
         /\ AnsweredAfterAcquire(a)
         /\ IF a = "raise"
            THEN /\ reports' = ReportFailure(proxy)
                 /\ GraphqlRaised
                 /\ pageProxy' = pageProxy
            ELSE /\ pageProxy' = a
                 /\ pc' = "page_fetch"
                 /\ UNCHANGED <<outVars, posts, gqlOutcome, reports>>
    /\ UNCHANGED <<cfgVars, profileVars, proxy, gqlLog, browser, batchVars>>

(* Lines 318-338: the posts of the page; empty on any exception. *)
PagePosts(resp) ==
    IF resp = NetworkError \/ resp.body = "unparsable"
    THEN << >>                                              \* lines 335-336
    ELSE ParseEdges(resp.edges)                             \* lines 323-333

(* Lines 318-338, then lines 270-282 of the caller. *)
PageFetch ==
    /\ pc = "page_fetch"
    /\ netActivity' = TRUE
    /\ \E resp \in PageAnswers :
         /\ gqlLog' = Append(gqlLog, LogEntry("page", gqlLog[Len(gqlLog)].end_cursor, resp))
         /\ reports' = ReportSuccess(proxy)
         /\ gqlOutcome' = "returned"
         /\ PostsReturned(posts \o PagePosts(resp))
    /\ UNCHANGED <<cfgVars, profileVars, proxy, pageProxy, browser, batchVars>>
    /\ Requested /\ UNCHANGED handles

----------------------------------------------------------------------------
(* _scrape_posts_browser, lines 401-491 *)

(* Line 427 *)
ScrollsNeeded(max_posts) == (max_posts \div ScrollPage) + 1

Shortcodes == {"A", "B"}

(* What the pattern of line 439 finds in a link: a shortcode, or nothing   *)
(* ("": the href holds no character after "/p/").                          *)
LinkMatches == Shortcodes \cup {""}

(* Variant: every shortcode found is appended, seen before or not. *)
RECURSIVE UniqMut(_, _)
UniqMut(links, seen) ==
    IF links = << >> THEN seen
    ELSE IF Head(links) = ""
         THEN UniqMut(Tail(links), seen)
         ELSE UniqMut(Tail(links), Append(seen, Head(links)))

(* Lines 437-443: the distinct shortcodes, in first-seen order. *)
RECURSIVE Uniq(_, _)
Uniq(links, seen) ==
    IF links = << >> THEN seen
    ELSE IF Head(links) = "" \/ \E k \in 1..Len(seen) : seen[k] = Head(links)
         THEN Uniq(Tail(links), seen)
         ELSE Uniq(Tail(links), Append(seen, Head(links)))

(* Lines 518-529: the keywords _parse_post_from_browser_html builds with. *)
HtmlPostKwargs ==
    [shortcode |-> "str", post_url |-> "str", media_type |-> "str",
     media_urls |-> "list", caption |-> "str", likes |-> "int",
     comments_count |-> "int", timestamp |-> "datetime", is_video |-> "bool",
     owner_username |-> "str"]

(* _parse_post_from_browser_html, lines 493-535 *)
ParsePostFromBrowserHtml(shortcode) ==
    IF Validates(HtmlPostKwargs, InstagramPostSchema)
    THEN <<Post(shortcode)>> ELSE << >>

(* Lines 461-480: the post of a detail page.  The page carries a parsable  *)
(* embedded payload with a media node, an unusable one, or none.           *)
DetailPages == {"shared_media", "shared_bad", "html"}

DetailPost(page, shortcode) ==
    LET fromShared == IF page = "shared_media"
                      THEN ParsePostFromGraphql([GoodNode EXCEPT !.shortcode = shortcode])
                      ELSE << >>
    IN IF fromShared # << >> THEN fromShared
       ELSE ParsePostFromBrowserHtml(shortcode)

(* Variant: the exception of the fallback is not caught. *)
BrowserRaisedMut ==
    /\ browser' = [browser EXCEPT !.state = "raised"]
    /\ raised' = "AutomationError"
    /\ pc' = "done"
    /\ UNCHANGED <<posts, results>>

(* Lines 196-199: the fallback raised; _scrape_posts returns its posts. *)
BrowserRaised ==
    /\ browser' = [browser EXCEPT !.state = "raised"]
    /\ PostsReturned(posts)

(* Lines 488-491: caught inside; the posts collected so far are returned. *)
BrowserReturns ==
    /\ browser' = [browser EXCEPT !.state = "returned"]
    /\ PostsReturned(posts)

(* Line 413: outside every try block of the method. *)
BrowserGetProxy ==
    /\ pc = "browser_get_proxy"
    /\ netActivity' = TRUE
    /\ \E a \in ProxyAnswers :
         /\ Answered(a)
         /\ IF a = "raise"
            THEN BrowserRaised /\ proxy' = proxy
            ELSE /\ proxy' = a
                 /\ pc' = "browser_open"
                 /\ browser' = [browser EXCEPT !.state = "running"]
                 /\ UNCHANGED <<outVars, posts>>
    /\ UNCHANGED <<cfgVars, profileVars, pageProxy, gqlLog, gqlOutcome, reports, batchVars>>
    /\ UNCHANGED permits

(* Lines 415-424: open the browser, go to the profile page, wait for the   *)
(* post grid.                                                              *)
BrowserOpen ==
    /\ pc = "browser_open"
    /\ netActivity' = TRUE
    /\ \E a \in {"open_raises", "goto_raises", "ok"} :
         CASE a = "open_raises" -> BrowserRaised /\ UNCHANGED permits
           [] a = "goto_raises" -> BrowserReturns /\ Requested
           [] OTHER -> /\ pc' = "browser_scroll"
                       /\ Requested
                       /\ UNCHANGED <<outVars, posts, browser>>
    /\ UNCHANGED <<cfgVars, profileVars, proxy, pageProxy, gqlLog, gqlOutcome, reports, batchVars>>
    /\ UNCHANGED handles

(* Lines 428-430: one iteration of the scroll loop. *)
BrowserScroll ==
    /\ pc = "browser_scroll"
    /\ browser.scrolls < ScrollsNeeded(config.max_posts)
    /\ \E a \in {"raises", "ok"} :
         IF a = "raises" THEN BrowserReturns
         ELSE /\ browser' = [browser EXCEPT !.scrolls = @ + 1]
              /\ UNCHANGED <<pc, outVars, posts>>
    /\ UNCHANGED <<cfgVars, netActivity, profileVars, proxy, pageProxy, gqlLog,
                   gqlOutcome, reports, batchVars>>
    /\ UNCHANGED <<handles, permits>>

(* Lines 432-448: the links of the page, their shortcodes, the ones to visit. *)
BrowserCollect ==
    /\ pc = "browser_scroll"
    /\ browser.scrolls = ScrollsNeeded(config.max_posts)
    /\ \E links \in SeqsUpTo(LinkMatches, MaxLinks) :
         browser' = [browser EXCEPT !.links = links,
                                    !.shortcodes = Take(Uniq(links, << >>), config.max_posts),
                                    !.idx = 1]
    /\ pc' = "browser_visit_rate_limit"
    /\ UNCHANGED <<cfgVars, outVars, netActivity, profileVars, proxy, gqlVars, reports, batchVars>>
    /\ UNCHANGED <<handles, permits>>

(* Line 450, or the end of the loop of line 448 and the return of line 491. *)
BrowserVisitRateLimit ==
    /\ pc = "browser_visit_rate_limit"
    /\ IF browser.idx <= Len(browser.shortcodes)
       THEN /\ netActivity' = TRUE
            /\ Acquired
            /\ pc' = "browser_visit"
            /\ UNCHANGED <<outVars, posts, browser>>
       ELSE /\ BrowserReturns
            /\ UNCHANGED <<netActivity, permits>>
    /\ UNCHANGED <<cfgVars, profileVars, proxy, pageProxy, gqlLog, gqlOutcome, reports, batchVars>>
    /\ UNCHANGED handles

(* Variant: the try block is around the loop, a failure ends the visits. *)
BrowserVisitMut ==
    /\ pc = "browser_visit"
    /\ netActivity' = TRUE
    /\ LET sc == browser.shortcodes[browser.idx] IN
       \E a \in DetailPages \cup {"raises"} :
         IF a = "raises"
         THEN /\ browser' = [browser EXCEPT !.state = "returned", !.idx = @ + 1,
                                            !.visited = Append(@, sc),
                                            !.failed = Append(@, sc)]
              /\ PostsReturned(posts)
         ELSE /\ posts' = posts \o DetailPost(a, sc)
              /\ browser' = [browser EXCEPT !.idx = @ + 1, !.visited = Append(@, sc)]
              /\ pc' = "browser_visit_rate_limit"
              /\ UNCHANGED outVars
    /\ UNCHANGED <<cfgVars, profileVars, proxy, pageProxy, gqlLog,
                   gqlOutcome, reports, batchVars>>
    /\ Requested /\ UNCHANGED handles

(* Lines 451-484: visit one detail page; a failure skips the shortcode. *)
BrowserVisit ==
    /\ pc = "browser_visit"
    /\ netActivity' = TRUE
    /\ LET sc == browser.shortcodes[browser.idx] IN
       \E a \in DetailPages \cup {"raises"} :
         /\ posts' = IF a = "raises" THEN posts ELSE posts \o DetailPost(a, sc)
         /\ browser' = [browser EXCEPT !.idx = @ + 1, !.visited = Append(@, sc),
                                       !.failed = IF a = "raises" THEN Append(@, sc) ELSE @]
    /\ pc' = "browser_visit_rate_limit"
    /\ UNCHANGED <<cfgVars, outVars, profileVars, proxy, pageProxy, gqlLog,
                   gqlOutcome, reports, batchVars>>
    /\ Requested /\ UNCHANGED handles

----------------------------------------------------------------------------
(* _parse_comment_from_graphql, lines 698-729 *)

CommentNodes == {[id |-> "k"], [id |-> ""]}
CommentEdgeLists == SeqsUpTo(CommentNodes, 1)

(* A response of the comments endpoint; "user" stands here for a body that *)
(* carries the shortcode_media object.                                     *)
CommentAnswers ==
    {NetworkError}
    \cup [status : {200, 500}, body : {"unparsable", "nouser"}, edges : {<< >>},
          has_next : {FALSE}, end_cursor : {None}]
    \cup [status : {200}, body : {"user"}, edges : CommentEdgeLists,
          has_next : BOOLEAN, end_cursor : {"c1"}]

(* Lines 718-724: the keywords InstagramComment is built with. *)
CommentKwargs ==
    [comment_id |-> "str", text |-> "str", author_username |-> "str",
     likes |-> "int", timestamp |-> "datetime"]

ParseCommentFromGraphql(node) ==
    IF node.id = "" THEN << >>                              \* lines 701-703
    ELSE IF Validates(CommentKwargs, InstagramCommentSchema)
         THEN <<[comment_id |-> node.id]>>                  \* line 726
         ELSE << >>                                         \* lines 728-729

(* The loops of lines 612-620 and 683-691. *)
RECURSIVE ParseComments(_)
ParseComments(edges) ==
    IF edges = << >> THEN << >>
    ELSE ParseCommentFromGraphql(Head(edges)) \o ParseComments(Tail(edges))

----------------------------------------------------------------------------
(* _scrape_comments_batch, lines 537-566 *)

(* The fetch operation of one post: a coroutine of _scrape_post_comments.  *)
(* st is where it stands; proxy, pageProxy and comments are its locals,    *)
(* which end with it; assigned counts the assignments to post.comments.    *)
NewTask ==
    [st |-> "created", proxy |-> "none", pageProxy |-> "none",
     comments |-> << >>, assigned |-> 0]

Finished(t) == t.st \in {"returned", "raised"}
InFlight(t) == t.st \notin {"created", "returned", "raised"}

EndTask(t, how) ==
    [t EXCEPT !.st = how, !.proxy = "none", !.pageProxy = "none", !.comments = << >>]

(* Variant: the slice is one longer than the step. *)
WaveOfMut(start) == {i \in 1..Len(tasks) : start < i /\ i <= start + WaveSize + 1}

WaveOf(start) == {i \in 1..Len(tasks) : start < i /\ i <= start + WaveSize}

(* Lines 546-549: one coroutine per post, none of them started. *)
BatchStart ==
    /\ pc = "batch_start"
    /\ tasks' = [i \in 1..Len(posts) |-> NewTask]
    /\ waveStart' = 0
    /\ pc' = "batch_loop"
    /\ UNCHANGED <<cfgVars, outVars, netActivity, profileVars, proxy, gqlVars,
                   reports, browser, maxComments, waves>>
    /\ UNCHANGED <<handles, permits>>

(* Lines 553-555: the next slice of the task list is handed to gather. *)
WaveStart ==
    /\ pc = "batch_loop"
    /\ waveStart < Len(tasks)
    /\ tasks' = [i \in 1..Len(tasks) |->
                   IF i \in WaveOf(waveStart) THEN [tasks[i] EXCEPT !.st = "rate_limit"]
                   ELSE tasks[i]]
    /\ waves' = Append(waves, Cardinality(WaveOf(waveStart)))
    /\ pc' = "batch_gather"
    /\ UNCHANGED <<cfgVars, outVars, netActivity, profileVars, proxy, gqlVars,
                   reports, browser, maxComments, waveStart>>
    /\ UNCHANGED <<handles, permits>>

(* Variant: the wait ends when the first operation of the wave ended. *)
WaveResolvedMut ==
    /\ pc = "batch_gather"
    /\ \E i \in WaveOf(waveStart) : Finished(tasks[i])
    /\ waveStart' = waveStart + WaveSize
    /\ pc' = "batch_loop"
    /\ UNCHANGED <<cfgVars, outVars, netActivity, profileVars, proxy, gqlVars,
                   reports, browser, maxComments, tasks, waves>>
    /\ UNCHANGED <<handles, permits>>

(* Lines 555-556: gather returns when every operation of the wave ended. *)
WaveResolved ==
    /\ pc = "batch_gather"
    /\ \A i \in WaveOf(waveStart) : Finished(tasks[i])
    /\ waveStart' = waveStart + WaveSize
    /\ pc' = "batch_loop"
    /\ UNCHANGED <<cfgVars, outVars, netActivity, profileVars, proxy, gqlVars,
                   reports, browser, maxComments, tasks, waves>>
    /\ UNCHANGED <<handles, permits>>

(* Lines 559-564: a result that is an exception is logged and left out; a  *)
(* post is kept (a model instance is truthy).                              *)
KeepResult(t) == t.st = "returned"

(* Variant: each kept result is put in front of the list. *)
RECURSIVE FilterResultsMut(_, _)
FilterResultsMut(ps, ts) ==
    IF ps = << >> THEN << >>
    ELSE FilterResultsMut(Tail(ps), Tail(ts))
         \o (IF KeepResult(Head(ts)) THEN <<Head(ps)>> ELSE << >>)

RECURSIVE FilterResults(_, _)
FilterResults(ps, ts) ==
    IF ps = << >> THEN << >>
    ELSE (IF KeepResult(Head(ts)) THEN <<Head(ps)>> ELSE << >>)
         \o FilterResults(Tail(ps), Tail(ts))

(* Lines 558-566, and lines 88-92 of scrape() when it is the caller. *)
BatchReturn ==
    /\ pc = "batch_loop"
    /\ waveStart >= Len(tasks)
    /\ LET out == FilterResults(posts, tasks) IN
       results' = IF entry = "scrape" THEN ModelDump(out) ELSE out
    /\ pc' = "done"
    /\ UNCHANGED <<cfgVars, raised, netActivity, profileVars, proxy, gqlVars,
                   reports, browser, batchVars>>
    /\ UNCHANGED <<handles, permits>>

----------------------------------------------------------------------------
(* _scrape_post_comments, lines 568-645, for the post at index i *)

TaskUnchanged ==
    UNCHANGED <<cfgVars, outVars, pc, profileVars, proxy, pageProxy, gqlLog,
                gqlOutcome, browser, maxComments, waveStart, waves>>

(* Line 574 *)
TaskRateLimit(i) ==
    /\ tasks[i].st = "rate_limit"
    /\ netActivity' = TRUE
    /\ tasks' = [tasks EXCEPT ![i].st = "get_proxy"]
    /\ UNCHANGED <<posts, reports>>
    /\ TaskUnchanged
    /\ Acquired /\ UNCHANGED handles

(* Line 594: outside the try block, so an exception ends the operation. *)
TaskGetProxy(i) ==
    /\ tasks[i].st = "get_proxy"
    /\ netActivity' = TRUE
    /\ \E a \in ProxyAnswers :
         /\ AnsweredAfterAcquire(a)
         /\ tasks' = [tasks EXCEPT ![i] =
                        IF a = "raise" THEN EndTask(@, "raised")
                        ELSE [@ EXCEPT !.st = "fetch", !.proxy = a]]
    /\ UNCHANGED <<posts, reports>>
    /\ TaskUnchanged

(* Line 634: post.comments = comments *)
AssignComments(i, cs) == [posts EXCEPT ![i].comments = cs]

(* Lines 598-645, up to the await of line 627 when a further page is asked. *)
TaskFetch(i) ==
    /\ tasks[i].st = "fetch"
    /\ netActivity' = TRUE
    /\ \E resp \in CommentAnswers :
         LET t == tasks[i]
             cs == ParseComments(resp.edges)
         IN
         CASE resp = NetworkError \/ (resp.status = 200 /\ resp.body = "unparsable") ->
                /\ reports' = ReportFailure(t.proxy)        \* lines 640-643
                /\ tasks' = [tasks EXCEPT ![i] = EndTask(@, "returned")]
                /\ posts' = posts
           [] resp # NetworkError /\ resp.status # 200 ->   \* lines 602-604
                /\ tasks' = [tasks EXCEPT ![i] = EndTask(@, "returned")]
                /\ UNCHANGED <<posts, reports>>
           [] OTHER ->
                IF Len(cs) < maxComments /\ resp.has_next   \* lines 623-625
                THEN /\ tasks' = [tasks EXCEPT ![i].st = "page_rate_limit",
                                               ![i].comments = cs]
                     /\ UNCHANGED <<posts, reports>>
                ELSE /\ posts' = AssignComments(i, cs)       \* line 634
                     /\ reports' = ReportSuccess(t.proxy)    \* lines 637-638
                     /\ tasks' = [tasks EXCEPT ![i] =
                                    EndTask([@ EXCEPT !.assigned = @ + 1], "returned")]
    /\ TaskUnchanged
    /\ Requested /\ UNCHANGED handles

(* _fetch_paginated_comments, line 654 *)
TaskPageRateLimit(i) ==
    /\ tasks[i].st = "page_rate_limit"
    /\ netActivity' = TRUE
    /\ tasks' = [tasks EXCEPT ![i].st = "page_get_proxy"]
    /\ UNCHANGED <<posts, reports>>
    /\ TaskUnchanged
    /\ Acquired /\ UNCHANGED handles

(* Line 672: outside the try block of _fetch_paginated_comments, inside    *)
(* the one of _scrape_post_comments (lines 640-645).                       *)
TaskPageGetProxy(i) ==
    /\ tasks[i].st = "page_get_proxy"
    /\ netActivity' = TRUE
    /\ \E a \in ProxyAnswers :
         /\ AnsweredAfterAcquire(a)
         /\ IF a = "raise"
            THEN /\ reports' = ReportFailure(tasks[i].proxy)
                 /\ tasks' = [tasks EXCEPT ![i] = EndTask(@, "returned")]
            ELSE /\ tasks' = [tasks EXCEPT ![i].st = "page_fetch", ![i].pageProxy = a]
                 /\ reports' = reports
    /\ posts' = posts
    /\ TaskUnchanged

(* Lines 676-696: the comments of the page; empty on any exception. *)
PageComments(resp) ==
    IF resp = NetworkError \/ resp.body = "unparsable"
    THEN << >>
    ELSE ParseComments(resp.edges)

(* Lines 676-696, then lines 632-645 of the caller. *)
TaskPageFetch(i) ==
    /\ tasks[i].st = "page_fetch"
    /\ netActivity' = TRUE
    /\ \E resp \in CommentAnswers :
         posts' = AssignComments(i, tasks[i].comments \o PageComments(resp))
    /\ reports' = ReportSuccess(tasks[i].proxy)
    /\ tasks' = [tasks EXCEPT ![i] = EndTask([@ EXCEPT !.assigned = @ + 1], "returned")]
    /\ TaskUnchanged
    /\ Requested /\ UNCHANGED handles

----------------------------------------------------------------------------
(* The normalizers invoked alone: _parse_post_from_graphql on one raw      *)
(* node, and the loops that call a normalizer on each node of a list       *)
(* (lines 249-257 and 612-620), on a list of raw nodes.                    *)

RawCommentNodes == {[id |-> "k"], [id |-> "m"], [id |-> ""]}

ParseInputs ==
    [fn : {"_parse_post_from_graphql"}, node : RawPostNodes]
    \cup [fn : {"post_edges"},
          nodes : SeqsUpTo(PostNodes \cup {[GoodNode EXCEPT !.shortcode = "B"]}, MaxNodes)]
    \cup [fn : {"comment_edges"}, nodes : SeqsUpTo(RawCommentNodes, MaxNodes)]

InitParse ==
    /\ InitCommon
    /\ entry = "normalizer"
    /\ config = DefaultConfig
    /\ pc = "parse"
    /\ posts = << >>
    /\ maxComments = 0
    /\ input \in ParseInputs

ParseUnchanged ==
    UNCHANGED <<cfgVars, raised, netActivity, profileVars, proxy, gqlVars, reports,
                browser, batchVars, handles, permits>>

ParsePostNode ==
    /\ pc = "parse" /\ input.fn = "_parse_post_from_graphql"
    /\ results' = ParsePostFromGraphql(input.node)
    /\ pc' = "done"
    /\ ParseUnchanged

ParsePostEdges ==
    /\ pc = "parse" /\ input.fn = "post_edges"
    /\ results' = ParseEdges(input.nodes)
    /\ pc' = "done"
    /\ ParseUnchanged

ParseCommentEdges ==
    /\ pc = "parse" /\ input.fn = "comment_edges"
    /\ results' = ParseComments(input.nodes)
    /\ pc' = "done"
    /\ ParseUnchanged

NextParse == ParsePostNode \/ ParsePostEdges \/ ParseCommentEdges

ParseSpec == InitParse /\ [][NextParse]_vars

----------------------------------------------------------------------------
Next ==
    \/ ScrapeStart
    \/ RetrySleep
    \/ ProfileRateLimit
    \/ ProfileGetProxy
    \/ ProfileFetch
    \/ GqlRateLimit
    \/ GqlGetProxy
    \/ GqlFetch
    \/ PageRateLimit
    \/ PageGetProxy
    \/ PageFetch
    \/ BrowserGetProxy
    \/ BrowserOpen
    \/ BrowserScroll
    \/ BrowserCollect
    \/ BrowserVisitRateLimit
    \/ BrowserVisit
    \/ BatchStart
    \/ WaveStart
    \/ WaveResolved
    \/ BatchReturn
    \/ \E i \in 1..Len(tasks) : TaskRateLimit(i)
    \/ \E i \in 1..Len(tasks) : TaskGetProxy(i)
    \/ \E i \in 1..Len(tasks) : TaskFetch(i)
    \/ \E i \in 1..Len(tasks) : TaskPageRateLimit(i)
    \/ \E i \in 1..Len(tasks) : TaskPageGetProxy(i)
    \/ \E i \in 1..Len(tasks) : TaskPageFetch(i)

Spec == Init /\ [][Next]_vars

----------------------------------------------------------------------------
(* Properties *)

IsPostsScrape == entry = "scrape" /\ config.scrape_type \in {"posts", "reels"}

InFlightTasks == {i \in 1..Len(tasks) : InFlight(tasks[i])}

(* C1: for posts/reels, once structured post extraction has raised, the    *)
(* fallback is what runs next, scrape() raises nothing, and when it ends   *)
(* the fallback has ended (returned or failed) and its posts are the post  *)
(* list of the invocation: empty when the fallback itself failed.          *)
C1_FallbackAfterGraphqlRaise ==
    (IsPostsScrape /\ gqlOutcome = "raised") =>
        /\ raised = None
        /\ browser.state = "idle" => pc = "browser_get_proxy"
        /\ browser.state = "running" =>
             pc \in {"browser_open", "browser_scroll", "browser_visit_rate_limit",
                     "browser_visit"}
        /\ browser.state = "raised" => posts = << >>
        /\ pc = "done" =>
             /\ browser.state \in {"returned", "raised"}
             /\ ~config.include_comments => results = ModelDump(posts)

C1_Witness ==
    /\ IsPostsScrape /\ gqlOutcome = "raised" /\ pc = "done"
    /\ browser.state = "raised" /\ raised = None /\ results = << >>

(* C2: _scrape_comments_batch returns every input post, whatever the       *)
(* outcome of each post's fetch operation.                                 *)
C2_EveryPostReturned ==
    (pc = "done" /\ tasks # << >>) =>
        /\ raised = None
        /\ Len(results) = Len(posts)
        /\ \A i \in 1..Len(posts) : results[i].shortcode = posts[i].shortcode

(* C3: for posts/reels, scrape() returns at most max_posts records. *)
C3_AtMostMaxPosts ==
    IsPostsScrape =>
        /\ Len(results) <= config.max_posts
        /\ pc = "done" => Len(posts) <= config.max_posts

(* The continuation page carried more items than the whole limit. *)
C3_Witness ==
    /\ IsPostsScrape /\ pc = "done" /\ raised = None /\ gqlOutcome = "returned"
    /\ Len(gqlLog) = 2 /\ gqlLog[2].items > config.max_posts

(* C4: when structured extraction has returned, every page request after  *)
(* the first carried the previous response's end cursor, and requests went *)
(* on until max_posts posts were collected or a response indicated no      *)
(* further page; with pages of 10 (has_next) and 5 (no next), max 20 gives *)
(* 15 posts in 2 fetches and max 8 gives 8 posts in 1 fetch.               *)
C4_PaginationUntilMaxOrEnd ==
    (IsPostsScrape /\ gqlOutcome = "returned" /\ gqlLog # << >>
       /\ gqlLog[1].status = 200 /\ gqlLog[1].body = "user") =>
        LET n == Len(gqlLog)
            tenThenFive == /\ gqlLog[1].items = 10 /\ gqlLog[1].has_next
                           /\ n >= 2 => (gqlLog[2].items = 5 /\ ~gqlLog[2].has_next
                                          /\ gqlLog[2].body = "user")
        IN
        /\ \A k \in 2..n : gqlLog[k].after = gqlLog[k - 1].end_cursor
        /\ Len(posts) >= config.max_posts \/ ~gqlLog[n].has_next
        /\ (tenThenFive /\ config.max_posts = 20) => (Len(posts) = 15 /\ n = 2)
        /\ (tenThenFive /\ config.max_posts = 8) => (Len(posts) = 8 /\ n = 1)

(* C5: at most 3 fetch operations are in flight in any state, and a batch  *)
(* over n posts runs ceil(n/3) waves, each of 3 except possibly the last.  *)
C5_WavesOfThree ==
    /\ Cardinality(InFlightTasks) <= 3
    /\ (pc = "done" /\ tasks # << >>) =>
         LET n == Len(tasks)
             w == (n + 2) \div 3
         IN /\ Len(waves) = w
            /\ \A k \in 1..w : waves[k] = IF k < w THEN 3 ELSE n - 3 * (w - 1)

C5_Witness ==
    /\ entry = "_scrape_comments_batch" /\ pc = "done"
    /\ Len(tasks) = 7 /\ waves = <<3, 3, 1>>

(* C6: a first response of structured post extraction that is a failure    *)
(* (non-success status, unparsable payload, absent user data) makes        *)
(* _scrape_posts_graphql raise.                                            *)
C6_FirstFailureRaises ==
    (IsPostsScrape /\ gqlLog # << >>
       /\ (gqlLog[1].status # 200 \/ gqlLog[1].body \in {"unparsable", "nouser"})) =>
        gqlOutcome = "raised"

(* C7: no attempt of the profile fetch is started after an attempt that    *)
(* was answered HTTP 401.                                                  *)
C7_NoAttemptAfter401 ==
    \A i \in 1..Len(profileLog) : profileLog[i] = "401" => attempts = i

C9_OneProfileRecord ==
    (entry = "scrape" /\ config.scrape_type = "profile" /\ pc = "done"
       /\ ~ModelPostInitRejects(config)
       /\ \A i \in 1..Len(profileLog) : profileLog[i] \in {"profile", "skipped"}) =>
        /\ raised = None
        /\ Len(results) = 1
        /\ results[1].kind = "Profile"

(* C10: an input with neither a username nor a URL is rejected with a      *)
(* validation error, and no rate-limit acquire, proxy acquire or request   *)
(* happens in that invocation.                                             *)
C10_RejectedBeforeNetwork ==
    (entry = "scrape" /\ config.urls \in {"none", "empty"}
       /\ config.username \in {"none", "empty"}) =>
        /\ ~netActivity
        /\ pc \in {"start", "done"}
        /\ pc = "done" => (raised = "ValueError" /\ results = << >>)

C10_Witness ==
    /\ entry = "scrape" /\ config.urls = "empty" /\ config.username = "none"
    /\ pc = "done" /\ raised = "ValueError" /\ ~netActivity

(* C11 as claimed: the resolved identifier is the explicit one when one is *)
(* present; otherwise it is the piece of the first URL between the host    *)
(* and the next "/" or "?", for any host, and never the whole URL.         *)
HasPathSegment(url) == Len(url.tokens) >= 6 /\ url.tokens[6] \notin Separators

Resolved == entry = "scrape" /\ pc # "start" /\ ~ModelPostInitRejects(config)

C11_ResolverAnyHost ==
    Resolved =>
        /\ config.username = "name" => username = "name"
        /\ (config.username # "name" /\ HasPathSegment(config.url)) =>
              username = config.url.tokens[6]
        /\ config.username # "name" => username # config.url.text

(* C11 as amended: the explicit identifier when one is present; otherwise, *)
(* when the first URL holds "instagram.com/" followed by a character other *)
(* than "/" and "?", the characters after the leftmost such place up to    *)
(* the next "/" or "?"; otherwise the URL unchanged.                       *)
C11_ResolverInstagramUrl ==
    Resolved =>
        /\ config.username = "name" => username = "name"
        /\ config.username # "name" =>
              LET t == config.url.tokens
                  m == {i \in 1..(Len(t) - 2) :
                          t[i] \in EndsInInstagramCom /\ t[i + 1] = "/"
                          /\ t[i + 2] \notin Separators}
              IN /\ m = {} => username = config.url.text
                 /\ m # {} => \E i \in m : /\ username = t[i + 2]
                                            /\ \A j \in m : i <= j
        /\ (config.username # "name"
              /\ config.url.text \in {"https://www.instagram.com/natgeo/",
                                      "https://www.instagram.com/natgeo/?hl=en"}) =>
              username = "natgeo"

C11_Witness ==
    /\ Resolved /\ config.username = "none" /\ pc = "done"
    /\ config.url.text = "https://www.instagram.com/natgeo/?hl=en"
    /\ results = <<ProfileRecord("natgeo")>>

(* C12: in a list of raw nodes, a node without its identifying field is    *)
(* dropped, and every node that has it yields its Post or Comment, in      *)
(* source order.                                                           *)
RECURSIVE KeysOf(_, _)
KeysOf(nodes, key) ==
    IF nodes = << >> THEN << >>
    ELSE (IF Head(nodes)[key] # "" THEN <<Head(nodes)[key]>> ELSE << >>)
         \o KeysOf(Tail(nodes), key)

C12_NodeIsolation ==
    (entry = "normalizer" /\ pc = "done") =>
        /\ input.fn = "post_edges" =>
              LET want == KeysOf(input.nodes, "shortcode") IN
              /\ Len(results) = Len(want)
              /\ \A i \in 1..Len(want) : results[i].shortcode = want[i]
        /\ input.fn = "comment_edges" =>
              LET want == KeysOf(input.nodes, "id") IN
              /\ Len(results) = Len(want)
              /\ \A i \in 1..Len(want) : results[i].comment_id = want[i]

(* C13: a raw node with a shortcode, typed video, with a media URL and the *)
(* view count v (0 standing for an absent one) yields a Post of type video *)
(* with video_views = v and exactly one media URL.                         *)
C13_VideoNode ==
    (entry = "normalizer" /\ pc = "done" /\ input.fn = "_parse_post_from_graphql"
       /\ input.node.shortcode # "" /\ input.node.typename = "GraphVideo"
       /\ MediaUrl(input.node) # "") =>
        /\ Len(results) = 1
        /\ "type" \in DOMAIN results[1] /\ results[1].type = "video"
        /\ results[1].video_views = input.node.video_view_count
        /\ Len(results[1].media_urls) = 1

(* C14: a carousel node with k child media nodes, each with its media URL, *)
(* yields a Post whose media_urls are the k URLs in source order.          *)
C14_CarouselNode ==
    (entry = "normalizer" /\ pc = "done" /\ input.fn = "_parse_post_from_graphql"
       /\ input.node.shortcode # "" /\ input.node.typename = "GraphSidecar"
       /\ \A i \in 1..Len(input.node.children) : input.node.children[i] # NoUrlChild) =>
        /\ Len(results) = 1
        /\ Len(results[1].media_urls) = Len(input.node.children)
        /\ \A i \in 1..Len(input.node.children) :
              results[1].media_urls[i] = input.node.children[i].display_url

(* C15: every proxy handle acquired for a network operation is reported to *)
(* the proxy source exactly once: never more reports than handles, and as  *)
(* many when the invocation has ended.                                     *)
C15_OneReportPerHandle ==
    /\ reports.success + reports.failure <= handles
    /\ (pc = "done" /\ entry # "normalizer") =>
          reports.success + reports.failure = handles

(* C16: no request or navigation is issued without a rate-limit acquire of *)
(* its own completed before it.                                            *)
C16_AcquireBeforeRequest == permits >= 0

(* C17: no operation of a later wave has started, not even its rate-limit  *)
(* acquire, while an operation of an earlier wave has not ended (returned  *)
(* or raised).                                                             *)
C17_WaveAfterWave ==
    \A i, j \in 1..Len(tasks) :
        ((i - 1) \div 3 < (j - 1) \div 3 /\ tasks[j].st # "created") =>
            Finished(tasks[i])

(* The second wave is under way after a first wave in which one operation  *)
(* raised and the others returned.                                         *)
C17_Witness ==
    /\ Len(tasks) >= 4 /\ tasks[4].st = "fetch"
    /\ tasks[1].st = "raised" /\ tasks[2].st = "returned" /\ tasks[3].st = "returned"

(* C19: every attempt of the profile fetch whose proxy acquire returned, a *)
(* handle or none, issued its request.                                     *)
C19_RequestWithOrWithoutProxy ==
    \A i \in 1..Len(profileLog) : profileLog[i] # "skipped"

(* C20: the fallback scrolls ceil(max_posts / 12) times: never more, and   *)
(* that many once it goes on to collect the links.                         *)
C20_ScrollCount ==
    LET want == (config.max_posts + 11) \div 12 IN
    /\ browser.scrolls <= want
    /\ pc \in {"browser_visit_rate_limit", "browser_visit"} => browser.scrolls = want

(* C21: in the fallback a shortcode whose processing failed is skipped and *)
(* the later ones are still visited: the pages opened are always the       *)
(* shortcodes up to the current one, and all of them when the fallback     *)
(* returns from the loop; the posts collected are never more nor fewer     *)
(* than the pages that yielded one; and whatever fails in the fallback,    *)
(* nothing is raised and the caller gets the posts collected.              *)
C21_FallbackSkipsFailures ==
    (IsPostsScrape /\ browser.state # "idle") =>
        /\ raised = None
        /\ browser.visited = SubSeq(browser.shortcodes, 1, Len(browser.visited))
        /\ pc = "browser_visit_rate_limit" => Len(browser.visited) = browser.idx - 1
        /\ browser.state = "returned" => browser.visited = browser.shortcodes
        /\ Len(posts) <= Len(browser.visited) - Len(browser.failed)
        /\ (pc = "done" /\ ~config.include_comments) =>
              /\ Len(results) = Len(posts)
              /\ \A i \in 1..Len(posts) : results[i].shortcode = posts[i].shortcode

(* The first of two shortcodes failed, the second was visited all the      *)
(* same, and the fallback returned.                                        *)
C21_Witness ==
    /\ IsPostsScrape /\ pc = "done" /\ raised = None /\ browser.state = "returned"
    /\ Len(browser.shortcodes) = 2 /\ browser.visited = browser.shortcodes
    /\ browser.failed = <<browser.shortcodes[1]>>

(* C22: the shortcodes to visit are the distinct shortcodes of the links   *)
(* in first-seen order, cut to the first max_posts; the pages opened are   *)
(* a prefix of them, so none is opened twice and at most max_posts are.    *)
FirstSeen ==
    {i \in 1..Len(browser.links) :
        /\ browser.links[i] # ""
        /\ \A j \in 1..(i - 1) : browser.links[j] # browser.links[i]}

C22_DistinctShortcodesInOrder ==
    /\ Len(browser.shortcodes) = Min(Cardinality(FirstSeen), config.max_posts)
    /\ \A k \in 1..Len(browser.shortcodes) :
          \E i \in FirstSeen : /\ browser.links[i] = browser.shortcodes[k]
                                /\ Cardinality({j \in FirstSeen : j < i}) = k - 1
    /\ \A k, l \in 1..Len(browser.visited) :
          k # l => browser.visited[k] # browser.visited[l]
    /\ Len(browser.visited) <= config.max_posts
    /\ browser.visited = SubSeq(browser.shortcodes, 1, Len(browser.visited))

(* A link seen twice is visited once. *)
C22_Witness ==
    /\ browser.state = "returned" /\ config.max_posts >= 2
    /\ Len(browser.links) = 2 /\ browser.links[1] = browser.links[2]
    /\ browser.links[1] # "" /\ browser.visited = <<browser.links[1]>>

(* C23: comment enrichment assigns the comments of each post exactly once  *)
(* and changes nothing else of it.                                         *)
C23_MutatedExactlyOnce ==
    (pc = "done" /\ tasks # << >>) =>
        \A i \in 1..Len(posts) :
            /\ tasks[i].assigned = 1
            /\ entry = "_scrape_comments_batch" => posts[i].shortcode = ToString(i)

(* C24: the posts _scrape_comments_batch returns are posts of its input,   *)
(* in the relative order of the input.                                     *)
PositionOf(r) == CHOOSE i \in 1..Len(posts) : posts[i].shortcode = r.shortcode

C24_OrderPreserved ==
    (pc = "done" /\ tasks # << >>) =>
        /\ \A a \in 1..Len(results) :
              \E i \in 1..Len(posts) : posts[i].shortcode = results[a].shortcode
        /\ \A a, b \in 1..Len(results) :
              a < b => PositionOf(results[a]) < PositionOf(results[b])

(* Of four posts the second was left out; the others come back in order. *)
C24_Witness ==
    /\ entry = "_scrape_comments_batch" /\ pc = "done" /\ Len(posts) = 4
    /\ tasks[2].st = "raised" /\ Len(results) = 3
    /\ results[1].shortcode = "1" /\ results[2].shortcode = "3"
    /\ results[3].shortcode = "4"

(* C25: under limit m no post carries more than m comments, during the     *)
(* enrichment and in what it returns.                                      *)
C25_AtMostMaxComments ==
    /\ \A i \in 1..Len(posts) : Len(posts[i].comments) <= maxComments
    /\ (pc = "done" /\ tasks # << >>) =>
          \A a \in 1..Len(results) : Len(results[a].comments) <= maxComments

(* A post whose comments were assigned under the limit 0. *)
C25_Witness ==
    /\ entry = "_scrape_comments_batch" /\ pc = "done" /\ maxComments = 0
    /\ Len(posts) >= 1 /\ tasks[1].assigned = 1
    /\ Len(results) >= 1 /\ results[1].comments = << >>

(* C26: a node with a shortcode is normalized to a Post whose likes are    *)
(* the count of the one like-count location that is present, either count  *)
(* when both are, and 0 when neither is.                                   *)
C26_LikesFromEitherLocation ==
    (entry = "normalizer" /\ pc = "done" /\ input.fn = "_parse_post_from_graphql"
       /\ input.node.shortcode # "") =>
        LET a == input.node.preview_like_count
            b == input.node.liked_by_count
        IN /\ Len(results) = 1
           /\ (a # NoCount /\ b = NoCount) => results[1].likes = a
           /\ (a = NoCount /\ b # NoCount) => results[1].likes = b
           /\ (a # NoCount /\ b # NoCount) => results[1].likes \in {a, b}
           /\ (a = NoCount /\ b = NoCount) => results[1].likes = 0

====
